---- MODULE Spec2Model ----
(***************************************************************************)
(* State-machine model of yt_parser.py: the API-key pool (KeyManager), the  *)
(* request executor (KeyManager.execute), the cached paginated search       *)
(* (search_once) and the resumable, batch-flushing run loop.                *)
(*                                                                          *)
(* Persistent state (survives a process stop): CACHE (yt_cache.db) and prog *)
(* (progress.db).  Everything else is the memory of one process, gone when  *)
(* the process is killed and rebuilt by Restart.                            *)
(* A result row keeps the fields the control flow decides (keyword, video   *)
(* id, author avatar); the formatting of the other columns is not modelled. *)
(***************************************************************************)
EXTENDS Integers, Sequences, FiniteSets, TLC

\* ---------------------------------------------------------------- bounds
\* Number of API keys in YT_API_KEYS for a run.
NumKeys == 2
\* Largest key pool driven directly in SpecKeys.
PoolKeys == 4
\* Largest NUM_RESULTS / MAX_PAGES / BATCH_SIZE the environment sets.
MaxNumResults == 3
MaxPages == 2
MaxBatch == 2
\* Number of keywords in the sheet for a run.
NumKeywords == 3
\* Keys and sheet rows (all holding the same keyword) in SpecSearch.
SearchKeys == 1
SearchKeywords == 1
\* Keywords and keys of the specification with failing starts.
StartKeywords == 2
StartKeys == 1
\* Times the same keyword stands in the keyword column of the re-run
\* specification.
RerunKeywords == 2

\* ------------------------------------------------------ program constants
\* execute(fn, units=0, backoff_max=3)
backoff_max == 3
\* units=100 of the search call
SEARCH_UNITS == 100
\* units=1 of the channels call
CHANNEL_UNITS == 1
\* min(50, NUM_RESULTS - len(rows))
SEARCH_PAGE_CAP == 50
\* append_csv_batch(..., max_retries=3), append_to_sheets_with_retry(..., max_retries=5)
CSV_MAX_RETRIES == 3
SHEETS_MAX_RETRIES == 5

VARIABLES
    cfg,        \* NUM_RESULTS, MAX_PAGES, BATCH_SIZE read from the environment
    keywords,   \* the keyword column read from the sheet
    world,      \* what lies outside the script: the provider's pages and page
                \* tokens, the hash seeds of the interpreter
    hashseed,   \* the process's string-hash seed: fixes the iteration order of sets
    keys,       \* KeyManager.keys: position -> [active, used_units]
    index,      \* KeyManager.index
    CACHE,      \* yt_cache.db: one map per key shape (S:, V:, C:)
    prog,       \* progress.db
    open,       \* which of the two shelves the process holds open
    pc,         \* position of the process
    start, idx, all_res, batch_res,     \* locals of the run loop
    rows, token, page, sr, vr, ch,      \* locals of search_once
    call,       \* the call site being resolved: "S", "V" or "C" ("" outside)
    attempt,    \* local of execute
    api,        \* position of the key of the last get_key() (-1: none yet)
    err,        \* class of the exception the last call raised ("" for none)
    sleeps,     \* delays slept by the current execute call, in order
    nexec,      \* key_manager.execute calls made by the current search_once call
    delivered,  \* what the deliveries of the flush in progress returned so far
    flushes     \* the flushes the process handed to the sinks, oldest first

vars == <<cfg, keywords, world, hashseed, keys, index, CACHE, prog, open, pc,
          start, idx, all_res, batch_res, rows, token, page, sr, vr, ch,
          call, attempt, api, err, sleeps, nexec, delivered, flushes>>

NUM_RESULTS == cfg.NUM_RESULTS
MAX_PAGES == cfg.MAX_PAGES
BATCH_SIZE == cfg.BATCH_SIZE

Min(a, b) == IF a < b THEN a ELSE b

\* A delay that grows by one second per attempt.
Pow2_linear(n) == n + 1

RECURSIVE Pow2(_)
Pow2(n) == IF n = 0 THEN 1 ELSE 2 * Pow2(n - 1)

\* ------------------------------------------------------------ KeyManager
APIKey == [active |-> TRUE, used_units |-> 0]

KeyManagerInit(n) == [i \in 0..(n - 1) |-> APIKey]

NKeys(ks) == Cardinality(DOMAIN ks)

\* get_key: the for-loop over range(n); `left` iterations remain.  The result
\* is the key position returned (raised = FALSE) or QuotaExceededAllKeys
\* (raised = TRUE), with the value self.index is left at.
RECURSIVE get_key_scan(_, _, _)
get_key_scan(ks, i, left) ==
    IF left = 0
    THEN [raised |-> TRUE, api |-> -1, index |-> i]
    ELSE IF ks[i].active
         THEN [raised |-> FALSE, api |-> i, index |-> (i + 1) % NKeys(ks)]
         ELSE get_key_scan(ks, (i + 1) % NKeys(ks), left - 1)

\* A get_key without the "if api.active" test: it returns the key at index
\* whatever its flag.
get_key_noskip(ks, i) == [raised |-> FALSE, api |-> i, index |-> (i + 1) % NKeys(ks)]

get_key(ks, i) == get_key_scan(ks, i, NKeys(ks))

\* A deactivate that flips the flag.
deactivate_toggle(ks, a) == [ks EXCEPT ![a].active = ~@]

deactivate(ks, a) == [ks EXCEPT ![a].active = FALSE]

record(ks, a, units) == [ks EXCEPT ![a].used_units = @ + units]

\* ------------------------------------------------- the provider's catalogue
\* liveBroadcastContent of a video ("" stands for an absent tag) and the
\* channel that owns it.  Video id 0 stands for a search item without videoId.
LiveOf(v) == CASE v = 1 -> "none" [] v = 2 -> "live" [] v = 3 -> "" [] OTHER -> "upcoming"

ChannelOf(v) == IF v \in {1, 4} THEN 1 ELSE 2

\* The process's hash seeds: two of them enumerate a set in opposite orders.
Seeds == {1, 2}

\* What search().list may answer when asked for at most maxResults items:
\* a page of the catalogue that fits, with or without a nextPageToken.
SearchResponses(Pages, Tokens, maxResults) ==
    {[items |-> p, nextPageToken |-> t] :
        p \in {q \in Pages : Len(q) <= maxResults}, t \in Tokens \cup {""}}

\* videos().list(id=",".join(vids)): one item per requested id, in order.
VideoResponse(vids) ==
    [items |-> [i \in 1..Len(vids) |->
        [id |-> vids[i], channelId |-> ChannelOf(vids[i]), live |-> LiveOf(vids[i])]]]

\* channels().list(id=",".join(cids)): one item per requested id, in order.
ChannelResponse(cids) ==
    [items |-> [i \in 1..Len(cids) |-> [id |-> cids[i], url |-> cids[i]]]]

NoSearch == [items |-> <<>>, nextPageToken |-> ""]
NoItems == [items |-> <<>>]

\* ------------------------------------------------- search_once, pure parts
\* vids = [videoId of every search item that has one]
VidsOf(r) == SelectSeq(r.items, LAMBDA v : v # 0)

RECURSIVE SortedSeq(_)
SortedSeq(S) ==
    IF S = {} THEN <<>>
    ELSE LET m == CHOOSE x \in S : \A y \in S : x <= y
         IN <<m>> \o SortedSeq(S \ {m})

Reverse(s) == [i \in 1..Len(s) |-> s[Len(s) + 1 - i]]

\* list({...}): the elements of a set in the order the process's hashing gives.
ListOfSet(S, seed) == IF seed = 1 THEN SortedSeq(S) ELSE Reverse(SortedSeq(S))

\* cids = list({it['snippet']['channelId'] for it in vr['items']})
CidsOf(r, seed) == ListOfSet({r.items[i].channelId : i \in 1..Len(r.items)}, seed)

\* amap.get(channelId, ''): 0 stands for the empty avatar.
Avatar(chr, c) ==
    IF \E i \in 1..Len(chr.items) : chr.items[i].id = c
    THEN chr.items[CHOOSE i \in 1..Len(chr.items) : chr.items[i].id = c].url
    ELSE 0

\* A row loop without the liveBroadcastContent test.
RowsOf_nofilter(kw, items, chr) ==
    [i \in 1..Len(items) |->
        [keyword |-> kw, id |-> items[i].id, avatar |-> Avatar(chr, items[i].channelId)]]

\* The for-loop over vr['items']: live and upcoming items are skipped, every
\* other item appends one row.
RECURSIVE RowsOf(_, _, _)
RowsOf(kw, items, chr) ==
    IF items = <<>> THEN <<>>
    ELSE LET it == Head(items)
             rest == RowsOf(kw, Tail(items), chr)
         IN IF it.live \in {"live", "upcoming"}
            THEN rest
            ELSE <<[keyword |-> kw, id |-> it.id,
                    avatar |-> Avatar(chr, it.channelId)]>> \o rest

\* ------------------------------------------------------- sink deliveries
\* The retry loop of append_csv_batch and append_to_sheets_with_retry:
\* outs[k] tells whether the k-th write succeeds.  Returns what the function
\* returns: True from the first write that succeeds, False once every one of
\* the max_retries writes has failed.
RECURSIVE retry_loop(_, _, _)
retry_loop(outs, try, max_retries) ==
    IF try > max_retries THEN FALSE
    ELSE IF outs[try] THEN TRUE
         ELSE retry_loop(outs, try + 1, max_retries)

append_csv_batch(outs) == retry_loop(outs, 1, CSV_MAX_RETRIES)

append_to_sheets_with_retry(outs) == retry_loop(outs, 1, SHEETS_MAX_RETRIES)

\* The outcomes of max_retries writes of which the first `failing` fail and
\* the next one succeeds; the loop never looks past its first success.
WriteOutcomes(failing, max_retries) == [k \in 1..max_retries |-> k > failing]

\* ------------------------------------------------------------ the stores
EmptyStore == [k \in {} |-> 0]

EmptyCache == [S |-> EmptyStore, V |-> EmptyStore, C |-> EmptyStore]

\* prog.get('last_index', 0)
last_index == IF "last_index" \in DOMAIN prog THEN prog["last_index"] ELSE 0

\* No delivery of the flush in progress has returned yet.
Undelivered == [k \in {} |-> FALSE]

\* The memory of a freshly started process that has reached the run loop
\* (lines 70-339): both shelves open, a KeyManager over n keys, start read
\* from prog.
ProcessStart(n, p) ==
    /\ keys = KeyManagerInit(n)
    /\ index = 0
    /\ open = {"cache", "prog"}
    /\ pc = "loop"
    /\ start = p
    /\ idx = p
    /\ all_res = <<>>
    /\ batch_res = <<>>
    /\ rows = <<>> /\ token = "" /\ page = 0
    /\ sr = NoSearch /\ vr = NoItems /\ ch = NoItems
    /\ call = "" /\ attempt = 0 /\ api = -1 /\ err = "" /\ sleeps = <<>> /\ nexec = 0
    /\ delivered = Undelivered
    /\ flushes = <<>>

\* The first start of the script, on empty shelves, in a given environment:
\* the configurations, the keyword column, the number of keys, the pages the
\* provider holds, the page tokens it hands out and the hash seeds the
\* interpreter may draw.
FirstStart(Cfgs, kws, n, pages, tokens, seeds) ==
    /\ cfg \in Cfgs
    /\ keywords = kws
    /\ world = [pages |-> pages, tokens |-> tokens, seeds |-> seeds]
    /\ hashseed \in seeds
    /\ CACHE = EmptyCache
    /\ prog = EmptyStore
    /\ ProcessStart(n, 0)

mainVars == <<start, idx, all_res, batch_res>>
searchVars == <<rows, token, page, sr, vr, ch>>
execVars == <<call, attempt, api, err, sleeps>>
keyVars == <<keys, index>>
envVars == <<cfg, keywords, world, hashseed>>

\* kw = keywords[idx]
kw == keywords[idx + 1]

\* ------------------------------------------------------------ search_once
\* The cache key of the request at call site c: sk, vk or ck.
ReqKey(c) ==
    CASE c = "S" -> <<kw, token>>
      [] c = "V" -> VidsOf(sr)
      [] c = "C" -> CidsOf(vr, hashseed)

InCache(c) == ReqKey(c) \in DOMAIN CACHE[c]

\* What the provider may answer to the request at call site c.
ProviderResponses(c) ==
    CASE c = "S" -> SearchResponses(world.pages, world.tokens, Min(SEARCH_PAGE_CAP, NUM_RESULTS - Len(rows)))
      [] c = "V" -> {VideoResponse(VidsOf(sr))}
      [] c = "C" -> {ChannelResponse(CidsOf(vr, hashseed))}

\* units of the call at site c: 100, one per returned item, 1.
Units(c, r) ==
    CASE c = "S" -> SEARCH_UNITS
      [] c = "V" -> Len(r.items)
      [] c = "C" -> CHANNEL_UNITS

\* search_once continues with response r of call site `call` (lines 263-266,
\* 278-281, 293-321): an empty vids breaks out of the loop, an empty cids skips
\* the channel lookup, and the page's rows are appended once vr and ch are known.
Resolved(r) ==
    CASE call = "S" ->
            /\ sr' = r
            /\ IF VidsOf(r) = <<>>
               THEN pc' = "ret" /\ call' = ""
               ELSE pc' = "resolve" /\ call' = "V"
            /\ UNCHANGED <<vr, ch, rows, token, page>>
      [] call = "V" ->
            /\ vr' = r
            /\ IF CidsOf(r, hashseed) = <<>>
               THEN /\ rows' = rows \o RowsOf(kw, r.items, NoItems)
                    /\ token' = sr.nextPageToken
                    /\ pc' = "page" /\ call' = ""
               ELSE /\ pc' = "resolve" /\ call' = "C"
                    /\ UNCHANGED <<rows, token>>
            /\ UNCHANGED <<sr, ch, page>>
      [] call = "C" ->
            /\ ch' = r
            /\ rows' = rows \o RowsOf(kw, vr.items, r)
            /\ token' = sr.nextPageToken
            /\ pc' = "page" /\ call' = ""
            /\ UNCHANGED <<sr, vr, page>>

\* A loop that persists the cursor before search_once is called.
LoopNext_advance ==
    /\ pc = "loop" /\ idx < Len(keywords)
    /\ rows' = <<>> /\ token' = "" /\ page' = 0
    /\ sr' = NoSearch /\ vr' = NoItems /\ ch' = NoItems
    /\ nexec' = 0
    /\ prog' = ("last_index" :> (idx + 1)) @@ prog
    /\ pc' = "page"
    /\ UNCHANGED <<envVars, keyVars, CACHE, open, mainVars, execVars,
                   delivered, flushes>>

\* for idx in range(start, len(keywords)): the next keyword enters search_once.
LoopNext ==
    /\ pc = "loop" /\ idx < Len(keywords)
    /\ rows' = <<>> /\ token' = "" /\ page' = 0
    /\ sr' = NoSearch /\ vr' = NoItems /\ ch' = NoItems
    /\ nexec' = 0
    /\ pc' = "page"
    /\ UNCHANGED <<envVars, keyVars, CACHE, prog, open, mainVars, execVars,
                   delivered, flushes>>

\* while len(rows) < NUM_RESULTS and page < MAX_PAGES: page += 1
PageBegin ==
    /\ pc = "page" /\ Len(rows) < NUM_RESULTS /\ page < MAX_PAGES
    /\ page' = page + 1
    /\ pc' = "resolve" /\ call' = "S"
    /\ UNCHANGED <<envVars, keyVars, CACHE, prog, open, mainVars, rows, token,
                   sr, vr, ch, attempt, api, err, sleeps, nexec, delivered, flushes>>

\* A search_once that calls execute although the key is in the cache.
CacheHit_refetch ==
    /\ pc = "resolve" /\ InCache(call)
    /\ attempt' = 0 /\ sleeps' = <<>> /\ api' = -1 /\ err' = ""
    /\ nexec' = nexec + 1
    /\ pc' = "execute"
    /\ UNCHANGED <<envVars, keyVars, CACHE, prog, open, mainVars, searchVars,
                   call, delivered, flushes>>

\* if key in CACHE: response = CACHE[key]
CacheHit ==
    /\ pc = "resolve" /\ InCache(call)
    /\ Resolved(CACHE[call][ReqKey(call)])
    /\ UNCHANGED <<envVars, keyVars, CACHE, prog, open, mainVars, attempt, api,
                   err, sleeps, nexec, delivered, flushes>>

\* ------------------------------------------------- KeyManager.execute
\* else-branch of the cache test: key_manager.execute(...) is entered,
\* attempt = 0.
ExecBegin ==
    /\ pc = "resolve" /\ ~InCache(call)
    /\ attempt' = 0 /\ sleeps' = <<>> /\ api' = -1 /\ err' = ""
    /\ nexec' = nexec + 1
    /\ pc' = "execute"
    /\ UNCHANGED <<envVars, keyVars, CACHE, prog, open, mainVars, searchVars,
                   call, delivered, flushes>>

\* A run loop without the except clause: QuotaExceededAllKeys ends the process
\* as any other exception does, after the finally clause.
ExecAllKeysExhausted_uncaught ==
    /\ pc = "execute"
    /\ LET g == get_key(keys, index)
       IN /\ g.raised
          /\ index' = g.index
    /\ open' = {}
    /\ pc' = "aborted"
    /\ UNCHANGED <<envVars, keys, CACHE, prog, mainVars, searchVars, execVars,
                   nexec, delivered, flushes>>

\* get_key() finds no active key: QuotaExceededAllKeys leaves execute,
\* search_once and the for-loop; the except clause catches it and the finally
\* clause closes both shelves.
ExecAllKeysExhausted ==
    /\ pc = "execute"
    /\ LET g == get_key(keys, index)
       IN /\ g.raised
          /\ index' = g.index
    /\ open' = {}
    /\ pc' = "final"
    /\ UNCHANGED <<envVars, keys, CACHE, prog, mainVars, searchVars, execVars,
                   nexec, delivered, flushes>>

\* The call succeeds: usage is recorded, the response is returned (the frame
\* of execute, with attempt and api, is gone), stored in the cache under the
\* request's key and search_once goes on with it.
ExecSuccess ==
    /\ pc = "execute"
    /\ LET g == get_key(keys, index)
       IN /\ ~g.raised
          /\ \E r \in ProviderResponses(call) :
                /\ keys' = record(keys, g.api, Units(call, r))
                /\ CACHE' = [CACHE EXCEPT ![call] = (ReqKey(call) :> r) @@ @]
                /\ Resolved(r)
          /\ index' = g.index
          /\ api' = -1
    /\ attempt' = 0 /\ sleeps' = <<>> /\ err' = ""
    /\ UNCHANGED <<envVars, prog, open, mainVars, nexec, delivered, flushes>>

\* A quota branch that backs off as the rate-limit branch does.
ExecQuotaExceeded_backoff ==
    /\ pc = "execute"
    /\ LET g == get_key(keys, index)
       IN /\ ~g.raised
          /\ sleeps' = Append(sleeps, Pow2(attempt))
          /\ attempt' = attempt + 1
          /\ keys' = keys
          /\ index' = g.index
          /\ api' = g.api
    /\ err' = "quotaExceeded"
    /\ UNCHANGED <<envVars, CACHE, prog, open, pc, mainVars, searchVars, call,
                   nexec, delivered, flushes>>

\* HttpError with quotaExceeded or dailyLimitExceeded: deactivate, continue.
ExecQuotaExceeded ==
    /\ pc = "execute"
    /\ LET g == get_key(keys, index)
       IN /\ ~g.raised
          /\ keys' = deactivate(keys, g.api)
          /\ index' = g.index
          /\ api' = g.api
    /\ err' = "quotaExceeded"
    /\ UNCHANGED <<envVars, CACHE, prog, open, pc, mainVars, searchVars, call,
                   attempt, sleeps, nexec, delivered, flushes>>

\* A backoff that sleeps and retries without counting the attempt.
Backoff_nocount(e) ==
    /\ pc = "execute"
    /\ LET g == get_key(keys, index)
       IN /\ ~g.raised
          /\ sleeps' = Append(sleeps, Pow2(attempt))
          /\ index' = g.index
          /\ api' = g.api
    /\ err' = e
    /\ UNCHANGED <<envVars, keys, CACHE, prog, open, pc, mainVars, searchVars, call,
                   attempt, nexec, delivered, flushes>>

\* The branch shared by rateLimitExceeded and by connection errors:
\* sleep 2 ** attempt and count the attempt while attempt < backoff_max,
\* deactivate the key otherwise; either way the loop continues.
Backoff(e) ==
    /\ pc = "execute"
    /\ LET g == get_key(keys, index)
       IN /\ ~g.raised
          /\ IF attempt < backoff_max
             THEN /\ sleeps' = Append(sleeps, Pow2(attempt))
                  /\ attempt' = attempt + 1
                  /\ keys' = keys
             ELSE /\ keys' = deactivate(keys, g.api)
                  /\ UNCHANGED <<attempt, sleeps>>
          /\ index' = g.index
          /\ api' = g.api
    /\ err' = e
    /\ UNCHANGED <<envVars, CACHE, prog, open, pc, mainVars, searchVars, call,
                   nexec, delivered, flushes>>

\* HttpError with rateLimitExceeded.
ExecRateLimit == Backoff("rateLimitExceeded")

\* ConnectionResetError or socket.error.
ExecConnectionError == Backoff("ConnectionError")

\* An execute that treats every HttpError as a rate limit.
ExecFatal_retry == Backoff("HttpError")

\* Any other HttpError: logged and re-raised.  It is not a
\* QuotaExceededAllKeys, so only the finally clause runs and the process ends
\* with the exception.
ExecFatal ==
    /\ pc = "execute"
    /\ LET g == get_key(keys, index)
       IN /\ ~g.raised
          /\ index' = g.index
          /\ api' = g.api
    /\ err' = "HttpError"
    /\ open' = {}
    /\ pc' = "aborted"
    /\ UNCHANGED <<envVars, keys, CACHE, prog, mainVars, searchVars, call,
                   attempt, sleeps, nexec, delivered, flushes>>

\* ------------------------------------------------------------ the run loop
\* search_once returns rows (the while condition fails, or the break on an
\* empty vids); all_res.extend(res), batch_res.extend(res),
\* prog['last_index'] = idx + 1.
ReturnRows ==
    /\ \/ pc = "ret"
       \/ pc = "page" /\ ~(Len(rows) < NUM_RESULTS /\ page < MAX_PAGES)
    /\ all_res' = all_res \o rows
    /\ batch_res' = batch_res \o rows
    /\ prog' = ("last_index" :> (idx + 1)) @@ prog
    /\ rows' = <<>> /\ token' = "" /\ page' = 0
    /\ sr' = NoSearch /\ vr' = NoItems /\ ch' = NoItems
    /\ pc' = "batch"
    /\ UNCHANGED <<envVars, keyVars, CACHE, open, start, idx, execVars, nexec,
                   delivered, flushes>>

\* A flush: the rows handed to append_csv_batch and append_to_sheets_with_retry.
Flush(kind) ==
    [rows |-> batch_res, kind |-> kind, after |-> idx + 1 - start]

\* if (idx + 1 - start) % BATCH_SIZE == 0: the batch is handed to the sinks.
BatchFlush ==
    /\ pc = "batch" /\ (idx + 1 - start) % BATCH_SIZE = 0
    /\ flushes' = Append(flushes, Flush("batch"))
    /\ delivered' = Undelivered
    /\ pc' = "csv"
    /\ UNCHANGED <<envVars, keyVars, CACHE, prog, open, mainVars, searchVars,
                   execVars, nexec>>

\* Otherwise the loop goes on to the next keyword.
BatchSkip ==
    /\ pc = "batch" /\ (idx + 1 - start) % BATCH_SIZE # 0
    /\ idx' = idx + 1
    /\ pc' = "loop"
    /\ UNCHANGED <<envVars, keyVars, CACHE, prog, open, start, all_res, batch_res,
                   searchVars, execVars, nexec, delivered, flushes>>

\* A flush that gives up when the file delivery returns False.
AppendCsv_fatal ==
    /\ pc \in {"csv", "fcsv"}
    /\ \E failing \in 0..CSV_MAX_RETRIES :
          LET ok == append_csv_batch(WriteOutcomes(failing, CSV_MAX_RETRIES))
          IN /\ delivered' = ("csv" :> ok) @@ delivered
             /\ pc' = IF ~ok THEN "aborted" ELSE IF pc = "csv" THEN "sheets" ELSE "fsheets"
    /\ UNCHANGED <<envVars, keyVars, CACHE, prog, open, mainVars, searchVars,
                   execVars, nexec, flushes>>

\* append_csv_batch(df_batch, OUTPUT_CSV): its result is not looked at.
AppendCsv ==
    /\ pc \in {"csv", "fcsv"}
    /\ \E failing \in 0..CSV_MAX_RETRIES :
          delivered' = ("csv" :> append_csv_batch(
                            WriteOutcomes(failing, CSV_MAX_RETRIES))) @@ delivered
    /\ pc' = IF pc = "csv" THEN "sheets" ELSE "fsheets"
    /\ UNCHANGED <<envVars, keyVars, CACHE, prog, open, mainVars, searchVars,
                   execVars, nexec, flushes>>

\* append_to_sheets_with_retry(...): its result is not looked at.
AppendSheets ==
    /\ pc \in {"sheets", "fsheets"}
    /\ \E failing \in 0..SHEETS_MAX_RETRIES :
          delivered' = ("sheets" :> append_to_sheets_with_retry(
                            WriteOutcomes(failing, SHEETS_MAX_RETRIES))) @@ delivered
    /\ pc' = IF pc = "sheets" THEN "clear" ELSE "done"
    /\ UNCHANGED <<envVars, keyVars, CACHE, prog, open, mainVars, searchVars,
                   execVars, nexec, flushes>>

\* A flush that leaves the flushed rows in the accumulator.
BatchClear_keep ==
    /\ pc = "clear"
    /\ delivered' = Undelivered
    /\ idx' = idx + 1
    /\ pc' = "loop"
    /\ UNCHANGED <<envVars, keyVars, CACHE, prog, open, start, all_res, batch_res,
                   searchVars, execVars, nexec, flushes>>

\* batch_res = [] and the loop goes on to the next keyword.
BatchClear ==
    /\ pc = "clear"
    /\ batch_res' = <<>>
    /\ delivered' = Undelivered
    /\ idx' = idx + 1
    /\ pc' = "loop"
    /\ UNCHANGED <<envVars, keyVars, CACHE, prog, open, start, all_res,
                   searchVars, execVars, nexec, flushes>>

\* The range is used up: finally closes both shelves.
LoopEnd ==
    /\ pc = "loop" /\ idx >= Len(keywords)
    /\ open' = {}
    /\ pc' = "final"
    /\ UNCHANGED <<envVars, keyVars, CACHE, prog, mainVars, searchVars, execVars,
                   nexec, delivered, flushes>>

\* if batch_res: the rest of the batch is handed to the sinks.
FinalFlush ==
    /\ pc = "final" /\ batch_res # <<>>
    /\ flushes' = Append(flushes, Flush("final"))
    /\ delivered' = Undelivered
    /\ pc' = "fcsv"
    /\ UNCHANGED <<envVars, keyVars, CACHE, prog, open, mainVars, searchVars,
                   execVars, nexec>>

FinalSkip ==
    /\ pc = "final" /\ batch_res = <<>>
    /\ pc' = "done"
    /\ UNCHANGED <<envVars, keyVars, CACHE, prog, open, mainVars, searchVars,
                   execVars, nexec, delivered, flushes>>

\* ------------------------------------------------------ stop and restart
Stopped == {"done", "aborted", "crashed", "exited"}

\* The memory of a process, primed: what a start with n keys at cursor p
\* sets up, and what is left of a process that was killed.
Memory(n, p) ==
    /\ keys' = KeyManagerInit(n)
    /\ index' = 0
    /\ start' = p
    /\ idx' = p
    /\ all_res' = <<>>
    /\ batch_res' = <<>>
    /\ rows' = <<>> /\ token' = "" /\ page' = 0
    /\ sr' = NoSearch /\ vr' = NoItems /\ ch' = NoItems
    /\ call' = "" /\ attempt' = 0 /\ api' = -1 /\ err' = "" /\ sleeps' = <<>> /\ nexec' = 0
    /\ delivered' = Undelivered
    /\ flushes' = <<>>

\* A start that ignores progress.db and begins at keyword 0.
Restart_fromZero ==
    /\ pc \in Stopped
    /\ hashseed' \in world.seeds
    /\ open' = {"cache", "prog"}
    /\ pc' = "loop"
    /\ Memory(NKeys(keys), 0)
    /\ UNCHANGED <<cfg, keywords, world, CACHE, prog>>

\* The process is killed (power loss, SIGKILL): nothing more of it runs, not
\* even the finally clause, and its memory is gone.  What it wrote to the
\* shelves and handed to the sinks stays.
Crash ==
    /\ pc \notin Stopped
    /\ pc' = "crashed"
    /\ Memory(NKeys(keys), last_index)
    /\ UNCHANGED <<envVars, CACHE, prog, open>>

\* The script is started again: the shelves and the sinks are what the
\* earlier processes left, the memory is new.
Restart ==
    /\ pc \in Stopped
    /\ hashseed' \in world.seeds
    /\ open' = {"cache", "prog"}
    /\ pc' = "loop"
    /\ Memory(NKeys(keys), last_index)
    /\ UNCHANGED <<cfg, keywords, world, CACHE, prog>>

\* A start that finds YT_API_KEYS empty: CACHE is open (line 70), sys.exit
\* ends the process before key_manager, prog and the try block exist.  keys
\* keeps the pool the environment holds at the other starts.
StartNoKeys ==
    /\ pc \in Stopped
    /\ hashseed' \in world.seeds
    /\ open' = {"cache"}
    /\ pc' = "exited"
    /\ Memory(NKeys(keys), last_index)
    /\ UNCHANGED <<cfg, keywords, world, CACHE, prog>>

\* A start at which reading the keyword column raises (HttpError, network):
\* CACHE is open, prog is not yet, and the try block has not been entered.
StartReadFails ==
    /\ pc \in Stopped
    /\ hashseed' \in world.seeds
    /\ open' = {"cache"}
    /\ pc' = "aborted"
    /\ Memory(NKeys(keys), last_index)
    /\ UNCHANGED <<cfg, keywords, world, CACHE, prog>>

Next ==
    \/ LoopNext \/ PageBegin \/ CacheHit \/ ExecBegin
    \/ ExecAllKeysExhausted \/ ExecSuccess \/ ExecQuotaExceeded
    \/ ExecRateLimit \/ ExecConnectionError \/ ExecFatal
    \/ ReturnRows \/ BatchFlush \/ BatchSkip \/ AppendCsv \/ AppendSheets
    \/ BatchClear \/ LoopEnd \/ FinalFlush \/ FinalSkip
    \/ Crash \/ Restart

\* ------------------------------------------------------- specifications
\* The whole run: NumKeywords keywords, NumKeys keys, every BATCH_SIZE up to
\* MaxBatch, one result and one page per keyword, a provider that finds
\* nothing or one video.
RunConfigs == [NUM_RESULTS : {1}, MAX_PAGES : {1}, BATCH_SIZE : 1..MaxBatch]

Init ==
    FirstStart(RunConfigs, [i \in 1..NumKeywords |-> i], NumKeys, {<<>>, <<1>>}, {}, {1})

Spec == Init /\ [][Next]_vars

\* One keyword searched under every configuration up to MaxNumResults and
\* MaxPages, against a provider with pages of up to three items: items without
\* a videoId, live, upcoming and untagged videos, videos of two channels.
SearchConfigs == [NUM_RESULTS : 1..MaxNumResults, MAX_PAGES : 1..MaxPages, BATCH_SIZE : {1}]

SearchPages == {<<>>, <<2>>, <<1>>, <<1, 3>>, <<0, 4, 3>>}

InitSearch ==
    FirstStart(SearchConfigs, [i \in 1..SearchKeywords |-> 1], SearchKeys, SearchPages, {"A"}, Seeds)

\* With BATCH_SIZE = 1 every keyword is flushed as soon as it is searched, so
\* the loop never skips a flush and never has a remainder for the final one.
NextSearch ==
    \/ LoopNext \/ PageBegin \/ CacheHit \/ ExecBegin
    \/ ExecAllKeysExhausted \/ ExecSuccess \/ ExecQuotaExceeded
    \/ ExecRateLimit \/ ExecConnectionError \/ ExecFatal
    \/ ReturnRows \/ BatchFlush \/ AppendCsv \/ AppendSheets
    \/ BatchClear \/ LoopEnd \/ FinalSkip
    \/ Crash \/ Restart

SpecSearch == InitSearch /\ [][NextSearch]_vars

\* The same keyword several times in the column, two results asked for, a
\* provider whose pages hold videos of one channel or of two, and both hash
\* seeds: a keyword is searched again in the same process or, after a stop,
\* in the next one.
InitRerun ==
    FirstStart({[NUM_RESULTS |-> 2, MAX_PAGES |-> 1, BATCH_SIZE |-> 1]},
               [i \in 1..RerunKeywords |-> 1], 1, {<<1>>, <<1, 3>>}, {}, Seeds)

SpecRerun == InitRerun /\ [][NextSearch]_vars

\* The run with starts that fail before the run loop is entered.
InitStart ==
    FirstStart(RunConfigs, [i \in 1..StartKeywords |-> i], StartKeys, {<<>>, <<1>>}, {}, {1})

NextStart == Next \/ StartNoKeys \/ StartReadFails

SpecStart == InitStart /\ [][NextStart]_vars

\* The key pool alone, driven call by call: get_key() and deactivate(key) in
\* any order on a pool of up to PoolKeys keys.
CallGetKey ==
    /\ LET g == get_key(keys, index)
       IN /\ index' = g.index
          /\ api' = g.api
          /\ err' = IF g.raised THEN "QuotaExceededAllKeys" ELSE ""
    /\ UNCHANGED <<envVars, keys, CACHE, prog, open, pc, mainVars, searchVars,
                   call, attempt, sleeps, nexec, delivered, flushes>>

CallDeactivate ==
    /\ \E a \in DOMAIN keys : keys' = deactivate(keys, a)
    /\ UNCHANGED <<envVars, index, CACHE, prog, open, pc, mainVars, searchVars,
                   execVars, nexec, delivered, flushes>>

InitKeys ==
    \E n \in 1..PoolKeys :
        FirstStart({[NUM_RESULTS |-> 1, MAX_PAGES |-> 1, BATCH_SIZE |-> 1]},
                   <<1>>, n, {<<>>}, {}, {1})

NextKeys == CallGetKey \/ CallDeactivate

SpecKeys == InitKeys /\ [][NextKeys]_vars

\* ------------------------------------------------------------ the claims
AnyActive(ks) == \E k \in DOMAIN ks : ks[k].active

AllInactive == ~AnyActive(keys)

\* The first active key met going round the pool from position s.
FirstActiveFrom(ks, s) ==
    LET n == NKeys(ks)
        d == CHOOSE d \in 0..(n - 1) :
                /\ ks[(s + d) % n].active
                /\ \A e \in 0..(d - 1) : ~ks[(s + e) % n].active
    IN (s + d) % n

\* Position in the sheet of keyword k (the keywords of a run are distinct).
KwIndex(k) == (CHOOSE i \in 1..Len(keywords) : keywords[i] = k) - 1

RECURSIVE FlushedRows(_)
FlushedRows(fs) == IF fs = <<>> THEN <<>> ELSE Head(fs).rows \o FlushedRows(Tail(fs))

Batches == SelectSeq(flushes, LAMBDA f : f.kind = "batch")

Finals == SelectSeq(flushes, LAMBDA f : f.kind = "final")

InSearch == {"page", "resolve", "execute", "ret"}

\* C1: every get_key() call returns the first active key going round the pool
\* from the position after the key returned last (from position 0 on the first
\* call), never an inactive key, and raises QuotaExceededAllKeys exactly when
\* no key is active.
C1_RoundRobin ==
    [][CallGetKey =>
        IF AnyActive(keys)
        THEN /\ err' = ""
             /\ api' = FirstActiveFrom(keys, IF api = -1 THEN 0 ELSE (api + 1) % NKeys(keys))
             /\ keys[api'].active
        ELSE /\ err' = "QuotaExceededAllKeys"
             /\ api' = -1]_vars

\* A pool of three keys in which get_key() has gone past the inactive key 1
\* and returned key 2, wrapping index to 0.
C1_Witness ==
    /\ NKeys(keys) = 3 /\ api = 2 /\ index = 0
    /\ keys[0].active /\ ~keys[1].active /\ keys[2].active

\* C2: when the process stops abnormally (killed, or a provider error that is
\* not a quota error leaves search_once), every row of the keywords below the
\* persisted cursor, which are the rows in all_res, has been handed to a flush.
C2_OnlyInFlightLost ==
    [][pc' \in {"crashed", "aborted"} => all_res = FlushedRows(flushes)]_vars

\* C3: a search page is resolved only while the rows are fewer than
\* NUM_RESULTS, at most MAX_PAGES pages are begun, and after the first page
\* only if the page just processed carried a nextPageToken.
C3_PaginationStops ==
    (pc = "resolve" /\ call = "S") =>
        /\ Len(rows) < NUM_RESULTS
        /\ page <= MAX_PAGES
        /\ (page > 1 => token # "")

\* C4: search_once returns at most NUM_RESULTS rows after at most MAX_PAGES
\* pages (the provider never answers with more items than asked for).
C4_Bounded ==
    (pc = "ret" \/ (pc = "page" /\ ~(Len(rows) < NUM_RESULTS /\ page < MAX_PAGES))) =>
        /\ Len(rows) <= NUM_RESULTS
        /\ page <= MAX_PAGES

\* C5: when the cache holds the key of the request being resolved, the next
\* step of the process takes the stored response as it is and does not enter
\* execute: no key is touched, no usage recorded, the cache is not written.
C5_CacheHitNoCall ==
    [][(pc = "resolve" /\ InCache(call) /\ pc' # "crashed") =>
        /\ pc' # "execute"
        /\ nexec' = nexec
        /\ keys' = keys /\ index' = index
        /\ CACHE' = CACHE
        /\ (call = "S" => sr' = CACHE.S[ReqKey("S")])
        /\ (call = "V" => vr' = CACHE.V[ReqKey("V")])
        /\ (call = "C" => ch' = CACHE.C[ReqKey("C")])]_vars

\* The search page of the keyword came from the cache: search_once is about
\* to resolve the video details and has not called execute.
C5_Witness == pc = "resolve" /\ call = "V" /\ nexec = 0

\* C6: the persisted cursor never decreases, in a run or from one run to the
\* next, and the keyword search_once works on is never below the cursor.
C6_CursorMonotonic ==
    [][/\ last_index' >= last_index
       /\ (pc' \in InSearch => idx' >= last_index')]_vars

\* A restarted run searching the keyword at the cursor it started from.
C6_Witness == pc = "page" /\ start > 0 /\ idx = start /\ last_index = start

\* C7: when the loop has processed keywords start..n-1, the periodic flushes
\* are exactly those after the keywords whose count since start is a multiple
\* of BATCH_SIZE, a final flush follows them if and only if the accumulator
\* is not empty, every flush holds only rows of the keywords processed since
\* the flush before it, and the flushes together hold every produced row once.
C7_FlushSchedule ==
    (pc = "done" /\ idx = Len(keywords)) =>
        /\ Len(Batches) = (Len(keywords) - start) \div BATCH_SIZE
        /\ \A j \in 1..Len(Batches) : Batches[j].after = j * BATCH_SIZE
        /\ Len(Finals) = IF batch_res # <<>> THEN 1 ELSE 0
        /\ \A j \in 1..Len(flushes) : flushes[j].kind = "final" => j = Len(flushes)
        /\ FlushedRows(flushes) = all_res
        /\ \A j \in 1..Len(flushes) : \A i \in 1..Len(flushes[j].rows) :
              LET before == IF j = 1 THEN 0 ELSE flushes[j - 1].after
                  count == KwIndex(flushes[j].rows[i].keyword) - start + 1
              IN before < count /\ count <= flushes[j].after

\* Three keywords from a fresh cursor with BATCH_SIZE = 2: one flush after
\* keyword 2 and a final flush with the rows of keyword 3.
C7_Witness ==
    /\ pc = "done" /\ start = 0 /\ idx = 3 /\ BATCH_SIZE = 2
    /\ Len(flushes) = 2
    /\ flushes[1].kind = "batch" /\ flushes[1].after = 2 /\ Len(flushes[1].rows) = 2
    /\ flushes[2].kind = "final" /\ Len(flushes[2].rows) = 1

\* C8: once every key is inactive and execute has raised
\* QuotaExceededAllKeys, the process is on the path to its normal end: the
\* cursor is at the keyword in flight, both shelves are closed, and at the end
\* the rows not flushed before are in one final flush that tried both sinks.
C8_QuotaExit ==
    (AllInactive /\ pc # "execute") =>
        /\ pc \in {"final", "fcsv", "fsheets", "done"}
        /\ last_index = idx
        /\ open = {}
        /\ (pc = "done" =>
              /\ FlushedRows(flushes) = all_res
              /\ Len(Finals) = IF batch_res # <<>> THEN 1 ELSE 0
              /\ (batch_res # <<>> =>
                    /\ flushes[Len(flushes)] = [rows |-> batch_res, kind |-> "final",
                                                after |-> idx + 1 - start]
                    /\ DOMAIN delivered = {"csv", "sheets"}))

\* The keys ran out during the second keyword; the row of the first one went
\* to the final flush.
C8_Witness ==
    /\ pc = "done" /\ AllInactive /\ idx = 1 /\ start = 0
    /\ batch_res # <<>> /\ Len(flushes) = 1

\* C9: in a periodic flush the sheet delivery follows the file delivery
\* whatever that returned, both have returned when the batch is cleared, and
\* whatever they returned the accumulator is emptied and the loop goes on to
\* the next keyword.
C9_SinkFailureNonFatal ==
    [][/\ (pc = "csv" /\ pc' # "crashed" => pc' = "sheets" /\ "csv" \in DOMAIN delivered')
       /\ (pc = "sheets" /\ pc' # "crashed" =>
              pc' = "clear" /\ DOMAIN delivered' = {"csv", "sheets"})
       /\ (pc = "clear" /\ pc' # "crashed" =>
              pc' = "loop" /\ idx' = idx + 1 /\ batch_res' = <<>>)]_vars

\* The file delivery has used up its retries and the sheet delivery was still
\* made, with rows in the batch.
C9_Witness ==
    /\ pc = "clear" /\ batch_res # <<>>
    /\ delivered = [csv |-> FALSE, sheets |-> TRUE]

\* C10: a call that raises an HttpError of no known class ends execute at
\* once: the exception leaves the run loop, no key is deactivated, no usage is
\* recorded, nothing is slept, the attempt count and the cache stay, and the
\* process makes no further step.
C10_FatalPropagates ==
    [][/\ (pc = "execute" /\ err' = "HttpError" =>
              /\ pc' = "aborted"
              /\ keys' = keys
              /\ sleeps' = sleeps /\ attempt' = attempt
              /\ CACHE' = CACHE)
       /\ (pc = "aborted" => pc' = "loop" /\ err' = "")]_vars

\* An unclassified HttpError after two backoffs and with a key deactivated.
C10_Witness ==
    /\ pc = "aborted" /\ err = "HttpError" /\ attempt = 2 /\ sleeps = <<1, 2>>
    /\ \E k \in DOMAIN keys : ~keys[k].active

\* C11: whenever the process has ended by itself (normal end, quota exit,
\* exception, sys.exit), no shelf that it opened is still open.
C11_ClosedOnExit == pc \in {"done", "aborted", "exited"} => open = {}

\* C12: when search_once has processed a page, the rows it appended are, in
\* the order of the video-detail response, one row for every item whose
\* liveBroadcastContent is "none" or absent, and no row for an item that is
\* "live" or "upcoming" (the ids within one response are distinct).
C12_LiveFilter ==
    [][(pc \in {"resolve", "execute"} /\ pc' = "page") =>
        LET new == SubSeq(rows', Len(rows) + 1, Len(rows'))
            items == vr'.items
            Shown(i) == items[i].live \notin {"live", "upcoming"}
            RowsFor(i) == {j \in 1..Len(new) : new[j].id = items[i].id}
        IN /\ SubSeq(rows', 1, Len(rows)) = rows
           /\ \A i \in 1..Len(items) :
                 Cardinality(RowsFor(i)) = IF Shown(i) THEN 1 ELSE 0
           /\ \A j \in 1..Len(new) : \E i \in 1..Len(items) : j \in RowsFor(i)
           /\ \A i1, i2 \in 1..Len(items) : \A j1 \in RowsFor(i1) : \A j2 \in RowsFor(i2) :
                 i1 < i2 => j1 < j2]_vars

\* A page whose details hold an upcoming video and then an untagged one has
\* been processed: the only row is the untagged video's.
C12_Witness ==
    /\ pc = "page" /\ page = 1
    /\ Len(vr.items) = 2
    /\ vr.items[1].live = "upcoming" /\ vr.items[2].live = ""
    /\ Len(rows) = 1 /\ rows[1].id = vr.items[2].id

\* C13: after a rate-limit failure that was answered by a sleep (the key
\* that failed is still active), the next call of the same execute is issued
\* on that same key: a failure is reported for it, or the usage is recorded
\* on it.
C13_RetrySameKey ==
    [][(/\ pc = "execute" /\ err = "rateLimitExceeded"
        /\ api # -1 /\ keys[api].active
        /\ pc' # "crashed") =>
          /\ (api' # -1 => api' = api)
          /\ \A k \in DOMAIN keys : keys'[k] # keys[k] => k = api]_vars

\* C14: the first connection error of an execute call sleeps 2 ** 0 = 1
\* second although one rate-limit failure came before it in the same call
\* (attempt = 1 after a rate-limit failure: the only backoff so far was that
\* one).
C14_IndependentCounters ==
    [][(/\ pc = "execute" /\ err = "rateLimitExceeded" /\ attempt = 1
        /\ err' = "ConnectionError") =>
          sleeps' = Append(sleeps, 1)]_vars

\* C15: in an execute call the sleeps made so far are 1, 2, 4 in this order,
\* one per counted attempt; a rate-limit failure at attempt 0, 1, 2 sleeps
\* the next of them, counts the attempt and deactivates nothing; the failure
\* at attempt 3 deactivates the key it was served by without a sleep; every
\* execute call begins with attempt 0 and nothing slept.
C15_BackoffTiming ==
    [][/\ (pc' = "execute" => /\ attempt' \in 0..3
                              /\ sleeps' = SubSeq(<<1, 2, 4>>, 1, attempt'))
       /\ (pc = "execute" /\ pc' = "execute" /\ err' = "rateLimitExceeded" =>
              IF attempt < 3
              THEN attempt' = attempt + 1 /\ keys' = keys
              ELSE /\ attempt' = attempt /\ sleeps' = sleeps
                   /\ keys[api'].active /\ ~keys'[api'].active)
       /\ (pc # "execute" /\ pc' = "execute" => attempt' = 0 /\ sleeps' = <<>>)]_vars

\* The fourth rate-limit failure of a call: three sleeps were made and the
\* key that served the fourth call is inactive.
C15_Witness ==
    /\ pc = "execute" /\ err = "rateLimitExceeded"
    /\ attempt = 3 /\ sleeps = <<1, 2, 4>>
    /\ api # -1 /\ ~keys[api].active
    /\ \E k \in DOMAIN keys : keys[k].active

\* C16: a quota failure deactivates the key that served the call and only
\* that one, sleeps nothing and leaves the attempt count; the call after it
\* is issued on another key, an active one, and if no key is active
\* QuotaExceededAllKeys ends execute instead.
C16_QuotaDeactivates ==
    [][/\ (pc = "execute" /\ pc' = "execute" /\ err' = "quotaExceeded" =>
              /\ keys[api'].active /\ ~keys'[api'].active
              /\ keys'[api'].used_units = keys[api'].used_units
              /\ \A k \in DOMAIN keys : k # api' => keys'[k] = keys[k]
              /\ sleeps' = sleeps /\ attempt' = attempt)
       /\ (pc = "execute" /\ err = "quotaExceeded" /\ pc' # "crashed" =>
              IF AnyActive(keys)
              THEN /\ pc' # "final"
                   /\ (api' # -1 => api' # api /\ keys[api'].active)
                   /\ keys'[api] = keys[api]
              ELSE pc' = "final" /\ keys' = keys /\ CACHE' = CACHE)]_vars

\* A quota failure after one counted attempt: the key is inactive, the count
\* is still 1, another key is left.
C16_Witness ==
    /\ pc = "execute" /\ err = "quotaExceeded"
    /\ attempt = 1 /\ sleeps = <<1>>
    /\ api # -1 /\ ~keys[api].active
    /\ \E k \in DOMAIN keys : keys[k].active

\* C17: while search_once works on a keyword that an earlier position of the
\* column holds too (the cursor is past it, so its search completed and its
\* responses are in the cache), it does not enter execute.
C17_RerunFromCache ==
    (/\ pc \in InSearch /\ idx > 0
     /\ \E j \in 1..idx : keywords[j] = kw) =>
        pc # "execute" /\ nexec = 0

\* C18: the persisted cursor changes only when search_once has returned for
\* keyword idx, to idx + 1 and together with the rows joining all_res and
\* batch_res; when execute raises during keyword idx the cursor is at most
\* idx, and the next process starts its loop at the cursor.
C18_CursorAfterRows ==
    [][/\ (last_index' # last_index =>
              /\ pc \in {"ret", "page"} /\ pc' = "batch"
              /\ last_index' = idx + 1
              /\ all_res' = all_res \o rows
              /\ batch_res' = batch_res \o rows)
       /\ (pc = "execute" /\ pc' \in {"final", "aborted"} =>
              last_index' <= idx /\ idx' = idx)
       /\ (pc \in Stopped /\ pc' = "loop" => idx' = last_index')]_vars

\* The second keyword ended with an unexpected HttpError: the cursor is
\* still at it.
C18_Witness ==
    /\ pc = "aborted" /\ err = "HttpError"
    /\ start = 0 /\ idx = 1 /\ last_index = 1

\* C19: in a key pool no step turns an inactive key active, get_key()
\* returns no inactive key, and deactivate on an inactive key gives the pool
\* as it is.
C19_DeactivationPermanent ==
    [][/\ DOMAIN keys' = DOMAIN keys
       /\ \A k \in DOMAIN keys : ~keys[k].active => ~keys'[k].active
       /\ (CallGetKey => api' = -1 \/ keys[api'].active)
       /\ \A k \in DOMAIN keys : ~keys[k].active => deactivate(keys, k) = keys]_vars

\* Both keys of a pool were deactivated and the get_key() after that raised.
C19_Witness ==
    /\ NKeys(keys) = 2 /\ AllInactive
    /\ err = "QuotaExceededAllKeys" /\ api = -1

RECURSIVE SumSeq(_)
SumSeq(q) == IF q = <<>> THEN 0 ELSE Head(q) + SumSeq(Tail(q))

\* Attempts left to count plus keys left to deactivate.
Variant == (backoff_max - attempt) + Cardinality({k \in DOMAIN keys : keys[k].active})

\* C20: in execute the attempts left plus the active keys are between 0 and
\* backoff_max + N, every failed call lowers them by one, so execute is left
\* after at most backoff_max + N failed calls: with a response, with the
\* unexpected HttpError or with QuotaExceededAllKeys; the sleeps of one call
\* add up to at most 2 ^ backoff_max - 1.
C20_ExecuteTerminates ==
    [][/\ (pc' = "execute" =>
              /\ Variant' \in 0..(backoff_max + NKeys(keys'))
              /\ SumSeq(sleeps') <= 2 ^ backoff_max - 1)
       /\ (pc = "execute" /\ pc' = "execute" => Variant' = Variant - 1)
       /\ (pc = "execute" /\ pc' # "execute" =>
              pc' \in {"resolve", "page", "ret", "aborted", "final", "crashed"})
       /\ (pc = "execute" /\ pc' = "final" => AllInactive)]_vars

\* The first execute call of a process failed backoff_max + N times, slept
\* 7 seconds in all and raised QuotaExceededAllKeys.
C20_Witness ==
    /\ pc = "final" /\ AllInactive
    /\ attempt = backoff_max /\ SumSeq(sleeps) = 7
    /\ nexec = 1 /\ idx = start /\ page = 1 /\ call = "S"

====
